---------------------------- MODULE Spec2Model ----------------------------
(***************************************************************************)
(* Model of the logcat crate: the threadtime line parser                   *)
(* (src/parse/threadtime.rs), the Level enumeration (src/message/level.rs) *)
(* and the MessageBuilder (src/message/builder.rs).                        *)
(*                                                                         *)
(* A line of text is a sequence of one-character strings.  An Option<T>    *)
(* is a sequence of length 0 (None) or 1 (Some).                           *)
(***************************************************************************)
EXTENDS Integers, Sequences, FiniteSets, TLC

VARIABLES
    pc,       \* position of the parser: "idle", the next stage to run, or "done"
    line,     \* the argument of the current parse() call
    rest,     \* the remainder handed from one stage to the next
    msg,      \* ThreadTimeParser.msg, the PartialMessage accumulator
    result,   \* what the call returned: none yet, Ok(Message), Err, or a panic
    ran,      \* the stages that ran in the current call, in order
    year,     \* the year Local::today() gave to the current call, 0 if not read
    calls,    \* number of parse() calls made on this parser value
    builder,  \* the slots of a MessageBuilder used on its own
    record,   \* what the last call on the builder, or of parse::threadtime, returned
    builds    \* number of build() calls made on the builder

\* the parser value and its current call
pvars == <<pc, line, rest, msg, result, ran, year, calls>>

\* the builder used on its own and the last value returned
bvars == <<builder, record, builds>>

vars == <<pvars, bvars>>

(***************************************************************************)
(* Bounds and integer widths                                               *)
(***************************************************************************)
MaxCalls == 2

MaxBuilds == 2

\* u32::MAX, i32::MAX and the magnitude of i32::MIN, as decimal digits
U32_MAX == <<"4", "2", "9", "4", "9", "6", "7", "2", "9", "5">>

I32_MAX == <<"2", "1", "4", "7", "4", "8", "3", "6", "4", "7">>

I32_MIN_ABS == <<"2", "1", "4", "7", "4", "8", "3", "6", "4", "8">>

(***************************************************************************)
(* Characters and std::str helpers                                         *)
(***************************************************************************)
\* char::is_whitespace: the characters with the Unicode property White_Space.
\* Listed are U+0009 to U+000D, U+0020, U+0085, U+00A0 and U+1680. The
\* others (U+2000 to U+200A, U+2028, U+2029, U+202F, U+205F, U+3000) cannot
\* be written in a string here, so no line below can hold one.
Whitespace ==
    {"\t", "\n", "", "\f", "\r", " ", "", " ", " "}

Digits == {"0", "1", "2", "3", "4", "5", "6", "7", "8", "9"}

is_whitespace(c) == c \in Whitespace

Min(S) == CHOOSE x \in S : \A y \in S : x <= y

Max(S) == CHOOSE x \in S : \A y \in S : x >= y

NotFound == [found |-> FALSE, head |-> <<>>, tail |-> <<>>]

\* variant: the banner check left out
starts_with_dash_never(s) == FALSE

\* str::starts_with('-')
starts_with_dash(s) == Len(s) > 0 /\ s[1] = "-"

\* variant: leading whitespace not skipped
trim_start_keep(s) == s

\* str::trim_start
trim_start(s) ==
    LET keep == {i \in 1..Len(s) : ~is_whitespace(s[i])}
    IN  IF keep = {} THEN <<>> ELSE SubSeq(s, Min(keep), Len(s))

\* variant: trailing whitespace not trimmed
trim_end_keep(s) == s

\* str::trim_end
trim_end(s) ==
    LET keep == {i \in 1..Len(s) : ~is_whitespace(s[i])}
    IN  IF keep = {} THEN <<>> ELSE SubSeq(s, 1, Max(keep))

\* str::split_once(char::is_whitespace)
split_once_ws(s) ==
    LET at == {i \in 1..Len(s) : is_whitespace(s[i])}
    IN  IF at = {} THEN NotFound
        ELSE [found |-> TRUE,
              head  |-> SubSeq(s, 1, Min(at) - 1),
              tail  |-> SubSeq(s, Min(at) + 1, Len(s))]

\* str::split_once(c)
split_once(s, c) ==
    LET at == {i \in 1..Len(s) : s[i] = c}
    IN  IF at = {} THEN NotFound
        ELSE [found |-> TRUE,
              head  |-> SubSeq(s, 1, Min(at) - 1),
              tail  |-> SubSeq(s, Min(at) + 1, Len(s))]

\* str::split(&[..]): all groups, empty ones included
RECURSIVE split(_, _)
split(s, delims) ==
    LET at == {i \in 1..Len(s) : s[i] \in delims}
    IN  IF at = {} THEN <<s>>
        ELSE <<SubSeq(s, 1, Min(at) - 1)>>
             \o split(SubSeq(s, Min(at) + 1, Len(s)), delims)

\* variant: all leading whitespace dropped instead of one character
skip_one_trimmed(s) == trim_start(s)

\* let mut chars = rest.chars(); chars.next(); chars.as_str()
skip_one(s) == IF s = <<>> THEN <<>> ELSE Tail(s)

DigitVal(c) ==
    CASE c = "0" -> 0 [] c = "1" -> 1 [] c = "2" -> 2 [] c = "3" -> 3
      [] c = "4" -> 4 [] c = "5" -> 5 [] c = "6" -> 6 [] c = "7" -> 7
      [] c = "8" -> 8 [] c = "9" -> 9

RECURSIVE DecVal(_)
DecVal(ds) ==
    IF ds = <<>> THEN 0
    ELSE 10 * DecVal(SubSeq(ds, 1, Len(ds) - 1)) + DigitVal(ds[Len(ds)])

AllDigits(ds) == \A i \in 1..Len(ds) : ds[i] \in Digits

\* the digits without their leading zeros
Significant(ds) ==
    LET nz == {i \in 1..Len(ds) : ds[i] # "0"}
    IN  IF nz = {} THEN <<>> ELSE SubSeq(ds, Min(nz), Len(ds))

\* the number written ds is at most the number written limit (the checked
\* multiply-and-add of the integer parsers does not overflow)
Fits(ds, limit) ==
    LET n == Significant(ds)
        diff == {i \in 1..Len(n) : n[i] # limit[i]}
    IN  \/ Len(n) < Len(limit)
        \/ /\ Len(n) = Len(limit)
           /\ (diff = {} \/ DigitVal(n[Min(diff)]) < DigitVal(limit[Min(diff)]))

ParseFail == [ok |-> FALSE, val |-> 0]

\* <u32 as FromStr>::from_str: an optional '+', then decimal digits, no overflow
parse_u32(tok) ==
    LET ds == IF Len(tok) > 0 /\ tok[1] = "+" THEN Tail(tok) ELSE tok
    IN  IF ds = <<>> \/ ~AllDigits(ds) THEN ParseFail
        ELSE IF ~Fits(ds, U32_MAX) THEN ParseFail
        ELSE [ok |-> TRUE, val |-> DecVal(ds)]

\* <i32 as FromStr>::from_str: an optional '+' or '-', then digits, no overflow
parse_i32(tok) ==
    LET signed == Len(tok) > 0 /\ tok[1] \in {"+", "-"}
        neg    == signed /\ tok[1] = "-"
        ds     == IF signed THEN Tail(tok) ELSE tok
    IN  IF ds = <<>> \/ ~AllDigits(ds) THEN ParseFail
        ELSE IF ~Fits(ds, IF neg THEN I32_MIN_ABS ELSE I32_MAX) THEN ParseFail
        ELSE [ok |-> TRUE, val |-> IF neg THEN 0 - DecVal(ds) ELSE DecVal(ds)]

(***************************************************************************)
(* Level                                                                   *)
(***************************************************************************)
Levels == {"Verbose", "Debug", "Info", "Warning", "Error", "Fatal"}

\* declaration order of the enum's variants
LevelOrder == <<"Verbose", "Debug", "Info", "Warning", "Error", "Fatal">>

Rank(x) == CHOOSE i \in 1..Len(LevelOrder) : LevelOrder[i] = x

is_debug_or_higher(x) == x \in {"Debug", "Info", "Warning", "Error", "Fatal"}

is_info_or_higher(x) == x \in {"Info", "Warning", "Error", "Fatal"}

\* variant: Info counted as a warning
is_warning_or_higher_lax(x) == x \in {"Info", "Warning", "Error", "Fatal"}

is_warning_or_higher(x) == x \in {"Warning", "Error", "Fatal"}

is_error_or_higher(x) == x \in {"Error", "Fatal"}

short(x) ==
    CASE x = "Verbose" -> "V" [] x = "Debug" -> "D" [] x = "Info" -> "I"
      [] x = "Warning" -> "W" [] x = "Error" -> "E" [] x = "Fatal" -> "F"

(***************************************************************************)
(* Message and MessageBuilder                                              *)
(***************************************************************************)
NoMessage ==
    [level |-> "none", tag |-> <<>>, content |-> <<>>,
     date_time |-> <<>>, pid |-> <<>>, tid |-> <<>>]

\* MessageBuilder::new(): every slot is None
builder_new ==
    [level |-> <<>>, tag |-> <<>>, content |-> <<>>,
     date_time |-> <<>>, pid |-> <<>>, tid |-> <<>>]

builder_level(b, value) == [b EXCEPT !.level = <<value>>]

builder_tag(b, value) == [b EXCEPT !.tag = <<value>>]

builder_content(b, value) == [b EXCEPT !.content = <<value>>]

builder_date_time(b, value) == [b EXCEPT !.date_time = <<value>>]

builder_process_id(b, value) == [b EXCEPT !.pid = <<value>>]

builder_thread_id(b, value) == [b EXCEPT !.tid = <<value>>]

\* variant: the tag slot is looked at before the level slot
build_tag_first(b) ==
    IF b.tag = <<>> THEN [ok |-> FALSE, message |-> NoMessage, err |-> "tag"]
    ELSE IF b.level = <<>>
         THEN [ok |-> FALSE, message |-> NoMessage, err |-> "level"]
    ELSE IF b.content = <<>>
         THEN [ok |-> FALSE, message |-> NoMessage, err |-> "content"]
    ELSE [ok |-> TRUE,
          message |-> [level |-> b.level[1], tag |-> b.tag[1],
                       content |-> b.content[1], date_time |-> b.date_time,
                       pid |-> b.pid, tid |-> b.tid],
          err |-> "none"]

\* variant: the optional values are kept only when all three are set
build_all_or_none(b) ==
    LET all == b.date_time # <<>> /\ b.pid # <<>> /\ b.tid # <<>>
    IN  IF b.level = <<>>
        THEN [ok |-> FALSE, message |-> NoMessage, err |-> "level"]
        ELSE IF b.tag = <<>>
             THEN [ok |-> FALSE, message |-> NoMessage, err |-> "tag"]
        ELSE IF b.content = <<>>
             THEN [ok |-> FALSE, message |-> NoMessage, err |-> "content"]
        ELSE [ok |-> TRUE,
              message |-> [level |-> b.level[1], tag |-> b.tag[1],
                           content |-> b.content[1],
                           date_time |-> IF all THEN b.date_time ELSE <<>>,
                           pid |-> IF all THEN b.pid ELSE <<>>,
                           tid |-> IF all THEN b.tid ELSE <<>>],
              err |-> "none"]

\* MessageBuilder::build(): the first unset mandatory field is reported
build(b) ==
    IF b.level = <<>> THEN [ok |-> FALSE, message |-> NoMessage, err |-> "level"]
    ELSE IF b.tag = <<>> THEN [ok |-> FALSE, message |-> NoMessage, err |-> "tag"]
    ELSE IF b.content = <<>>
         THEN [ok |-> FALSE, message |-> NoMessage, err |-> "content"]
    ELSE [ok |-> TRUE,
          message |-> [level |-> b.level[1], tag |-> b.tag[1],
                       content |-> b.content[1], date_time |-> b.date_time,
                       pid |-> b.pid, tid |-> b.tid],
          err |-> "none"]

(***************************************************************************)
(* chrono: calendar validity                                               *)
(***************************************************************************)
\* the years Local::today().year() may give: a common year and a leap year
Years == {2023, 2024}

IsLeapYear(y) == (y % 4 = 0 /\ y % 100 # 0) \/ y % 400 = 0

DaysInMonth(y, m) ==
    IF m = 2 THEN (IF IsLeapYear(y) THEN 29 ELSE 28)
    ELSE IF m \in {4, 6, 9, 11} THEN 30 ELSE 31

\* NaiveDate::from_ymd_opt(..).is_some()
ValidDate(y, m, d) == m \in 1..12 /\ d >= 1 /\ d <= DaysInMonth(y, m)

\* NaiveTime::from_hms_milli_opt(..).is_some(); a millisecond of 1000..1999
\* stands for a leap second and needs second 59
ValidTime(h, mi, s, ms) ==
    /\ h < 24 /\ mi < 60 /\ s < 60
    /\ (ms < 1000 \/ (ms < 2000 /\ s = 59))

(***************************************************************************)
(* ThreadTimeParser                                                        *)
(***************************************************************************)
\* PartialMessage::default()
PartialMessage_default ==
    [month |-> 0, day |-> 0, hour |-> 0, minute |-> 0, second |-> 0,
     millisecond |-> 0, pid |-> 0, tid |-> 0, level |-> "Verbose", tag |-> <<>>]

NoErr == [ctx |-> "none", arg |-> <<>>, cause |-> "none"]

\* an anyhow::Error: the outer context message, the text formatted into it
\* (empty when the message has no placeholder) and the inner cause
Error(ctx, arg, cause) == [ctx |-> ctx, arg |-> arg, cause |-> cause]

StageOk(m, r) == [ok |-> TRUE, msg |-> m, rest |-> r, err |-> NoErr]

StageErr(m, e) == [ok |-> FALSE, msg |-> m, rest |-> <<>>, err |-> e]

parse_date(m, r0) ==
    LET sp == split_once_ws(trim_start(r0))
        month_day == sp.head
        md == split_once(month_day, "-")
        month == parse_u32(md.head)
        day == parse_u32(md.tail)
        m1 == [m EXCEPT !.month = month.val]
        ctx == "invalid date (mm-dd): "
    IN  IF ~sp.found
        THEN StageErr(m, Error("invalid line: no groups after date", <<>>, "none"))
        ELSE IF ~md.found THEN StageErr(m, Error(ctx, month_day, "'-' not found"))
        ELSE IF ~month.ok THEN StageErr(m, Error(ctx, month_day, "ParseIntError"))
        ELSE IF ~day.ok THEN StageErr(m1, Error(ctx, month_day, "ParseIntError"))
        ELSE StageOk([m1 EXCEPT !.day = day.val], sp.tail)

TimeFields == <<"hour", "minute", "second", "millisecond">>

parse_time(m, r0) ==
    LET sp == split_once_ws(trim_start(r0))
        time == sp.head
        groups == split(time, {":", "."})
        Bad(i) == i > Len(groups) \/ ~parse_u32(groups[i]).ok
        \* the first of the four splitter.next()...parse() steps that fails
        stop == Min({i \in 1..4 : Bad(i)} \cup {5})
        m1 == [f \in DOMAIN m |->
                 IF \E i \in 1..(stop - 1) : TimeFields[i] = f
                 THEN parse_u32(groups[CHOOSE i \in 1..4 : TimeFields[i] = f]).val
                 ELSE m[f]]
    IN  IF ~sp.found
        THEN StageErr(m, Error("invalid line: no groups after time", <<>>, "none"))
        ELSE IF stop = 5 THEN StageOk(m1, sp.tail)
        ELSE IF stop > Len(groups)
             THEN StageErr(m1, Error("invalid time: ", time, "not enough groups"))
        ELSE StageErr(m1, Error("invalid time: ", time, "ParseIntError"))

parse_pid(m, r0) ==
    LET sp == split_once_ws(trim_start(r0))
        pid == parse_i32(sp.head)
    IN  IF ~sp.found
        THEN StageErr(m, Error("invalid line: no groups after process id",
                               <<>>, "none"))
        ELSE IF ~pid.ok
             THEN StageErr(m, Error("invalid process id: ", sp.head, "ParseIntError"))
        ELSE StageOk([m EXCEPT !.pid = pid.val], sp.tail)

\* variant: the thread id stored in the pid field
parse_tid_into_pid(m, r0) ==
    LET sp == split_once_ws(trim_start(r0))
        tid == parse_i32(sp.head)
    IN  IF ~sp.found
        THEN StageErr(m, Error("invalid line: no groups after thread id",
                               <<>>, "none"))
        ELSE IF ~tid.ok
             THEN StageErr(m, Error("invalid thread id: ", sp.head, "ParseIntError"))
        ELSE StageOk([m EXCEPT !.pid = tid.val], sp.tail)

parse_tid(m, r0) ==
    LET sp == split_once_ws(trim_start(r0))
        tid == parse_i32(sp.head)
    IN  IF ~sp.found
        THEN StageErr(m, Error("invalid line: no groups after thread id",
                               <<>>, "none"))
        ELSE IF ~tid.ok
             THEN StageErr(m, Error("invalid thread id: ", sp.head, "ParseIntError"))
        ELSE StageOk([m EXCEPT !.tid = tid.val], sp.tail)

\* the match on the first character of the level token
LevelOfChar(c) ==
    CASE c = "V" -> "Verbose" [] c = "D" -> "Debug" [] c = "I" -> "Info"
      [] c = "W" -> "Warning" [] c = "E" -> "Error" [] c = "F" -> "Fatal"
      [] OTHER -> "none"

parse_level(m, r0) ==
    LET sp == split_once_ws(trim_start(r0))
        level == sp.head
    IN  IF ~sp.found
        THEN StageErr(m, Error("invalid line: no groups after level", <<>>, "none"))
        ELSE IF level = <<>>
             THEN StageErr(m, Error("invalid level: ", level, "none"))
        ELSE IF LevelOfChar(level[1]) = "none"
             \* inside the match `level` names the character, not the token
             THEN StageErr(m, Error("invalid level: ", <<level[1]>>, "none"))
        ELSE StageOk([m EXCEPT !.level = LevelOfChar(level[1])], sp.tail)

parse_tag(m, r0) ==
    LET sp == split_once(trim_start(r0), ":")
    IN  IF ~sp.found
        THEN StageErr(m, Error("invalid line: missing tag", <<>>, "none"))
        ELSE StageOk([m EXCEPT !.tag = trim_end(sp.head)], skip_one(sp.tail))

NoResult == [kind |-> "none", message |-> NoMessage, err |-> NoErr]

Ok(message) == [kind |-> "ok", message |-> message, err |-> NoErr]

Err(e) == [kind |-> "err", message |-> NoMessage, err |-> e]

\* the call does not return: NaiveDate::from_ymd / and_hms_milli panicked
Panic == [kind |-> "panic", message |-> NoMessage, err |-> NoErr]

parse_content(m, r0, today) ==
    LET datetime == [year |-> today, month |-> m.month, day |-> m.day,
                     hour |-> m.hour, minute |-> m.minute, second |-> m.second,
                     millisecond |-> m.millisecond]
        b1 == builder_level(builder_new, m.level)
        b2 == builder_tag(b1, m.tag)
        b3 == builder_content(b2, r0)
        b4 == builder_date_time(b3, datetime)
        b5 == builder_process_id(b4, m.pid)
        b6 == builder_thread_id(b5, m.tid)
        built == build(b6)
    IN  IF ~ValidDate(today, m.month, m.day) THEN Panic
        ELSE IF ~ValidTime(m.hour, m.minute, m.second, m.millisecond) THEN Panic
        ELSE IF ~built.ok THEN Panic
        ELSE Ok(built.message)

\* the and_then chain of parse before the content stage: the first k of
\* parse_date, parse_time, parse_pid, parse_tid, parse_level, parse_tag
\* applied in that order to the line l, each to the remainder the one
\* before it left; a failed stage is where the chain stays
RECURSIVE AfterStages(_, _)
AfterStages(k, l) ==
    IF k = 0 THEN StageOk(PartialMessage_default, l)
    ELSE LET prev == AfterStages(k - 1, l)
         IN  IF ~prev.ok THEN prev
             ELSE CASE k = 1 -> parse_date(prev.msg, prev.rest)
                    [] k = 2 -> parse_time(prev.msg, prev.rest)
                    [] k = 3 -> parse_pid(prev.msg, prev.rest)
                    [] k = 4 -> parse_tid(prev.msg, prev.rest)
                    [] k = 5 -> parse_level(prev.msg, prev.rest)
                    [] k = 6 -> parse_tag(prev.msg, prev.rest)

\* ThreadTimeParser::parse as one function of the accumulator it starts with,
\* the line and the year of the clock: what it returns and the accumulator
\* it leaves behind
parse(m0, l, today) ==
    LET tg == AfterStages(6, l)
    IN  IF starts_with_dash(l)
        THEN [result |-> Err(Error("malformed line", <<>>, "none")), msg |-> m0]
        ELSE IF ~tg.ok THEN [result |-> Err(tg.err), msg |-> tg.msg]
        ELSE [result |-> parse_content(tg.msg, tg.rest, today), msg |-> tg.msg]

\* parse::threadtime: a fresh parser for the one line
threadtime(l, today) == parse(PartialMessage_default, l, today).result

(***************************************************************************)
(* Input lines                                                             *)
(***************************************************************************)
SP == <<" ">>

\* mm-dd hh:mm:ss.mmm pid tid L tail, single spaces between the fields
Line(pre, date, time, pid, tid, lvl, tail) ==
    pre \o date \o SP \o time \o SP \o pid \o SP \o tid \o SP \o lvl \o SP \o tail

Pre == {<<>>, <<" ">>}

\* date tokens both halves of which parse
GoodDates ==
    {<<"1", "2", "-", "3", "1">>,
     <<"2", "-", "2", "9">>,
     <<"0", "2", "-", "3", "0">>}

OddDates ==
    {<<"1", "3", "-", "1">>,
     <<"0", "-", "1">>,
     <<"4", "-", "3", "1">>,
     <<"+", "1", "-", "+", "2">>}

BadDates ==
    {<<"1", "2", "-">>,
     <<"1", "2", "3", "1">>,
     <<"1", "x", "-", "3", "1">>,
     <<"1", "2", "-", "3", "1", "-", "1">>,
     <<"1", "2", "-", "4", "2", "9", "4", "9", "6", "7", "2", "9", "6">>}

\* time tokens of four groups that parse
GoodTimes ==
    {<<"0", ":", "0", ":", "0", ".", "0">>,
     <<"2", "2", ":", "5", "9", ":", "4", "1", ".", "2", "7", "1">>}

BadTimes ==
    {<<":", "0", ":", "0", ".", "0">>,
     <<"0", ":", ":", "0", ".", "0">>,
     <<"0", ":", "0", ":", ".", "0">>,
     <<"0", ":", "0", ":", ".">>,
     <<"0", ":", "0", ":", "0">>,
     <<"0", ":", "x", ":", "0", ".", "0">>,
     <<"0">>,
     <<"0", ":", "0", ":", "0", ".", "-", "1">>}

OddTimes ==
    {<<"0", ":", "0", ":", "0", ".", "0", ".", "5">>,
     <<"2", "4", ":", "0", ":", "0", ".", "0">>,
     <<"0", ".", "0", ":", "0", ":", "0">>,
     <<"+", "1", ":", "2", ":", "3", ".", "4", ":", "x">>,
     <<"0", ":", "0", ":", "5", "9", ".", "1", "5", "0", "0">>,
     <<"0", ":", "6", "0", ":", "0", ".", "0">>,
     <<"0", ":", "0", ":", "6", "0", ".", "0">>}

GoodPids ==
    {<<"1">>,
     <<"-", "7">>}

BadPids ==
    {<<"x">>,
     <<"1", "x">>,
     <<"-">>,
     <<"2", "1", "4", "7", "4", "8", "3", "6", "4", "8">>}

GoodTids ==
    {<<"1", "9", "7">>}

BadTids ==
    {<<"y">>,
     <<>>,
     <<"-", "2", "1", "4", "7", "4", "8", "3", "6", "4", "9">>}

GoodLevels ==
    {<<"V">>,
     <<"D">>,
     <<"I">>,
     <<"W">>,
     <<"E">>,
     <<"F">>,
     <<"I", "n", "f", "o">>}

BadLevels ==
    {<<"X">>,
     <<"X", "y">>,
     <<"v">>,
     <<":">>}

GoodTails ==
    {<<"t", "a", "g", ":", " ", "c", "o", "n", "t", "e", "n", "t">>,
     <<"t", "a", "g", ":">>,
     <<":">>,
     <<" ", "t", "a", "g", " ", "\t", ":", " ", " ", "c", " ">>,
     <<"t", ":", "c", ":", "d">>,
     <<"t", " ", "g", ":", "\t", "c">>,
     <<"t", "\f", ":", "\n", "c", "\r", "\n">>}

BadTails ==
    {<<"t", "a", "g">>,
     <<>>,
     <<"t", "a", "g", " ", "c", "o", "n", "t", "e", "n", "t">>,
     <<" ", " ">>}

TestLines ==
    {<<"-", "-", "-", "-", "-", "-", "-", "-", "-", " ", "b", "e", "g", "i", "n", "n", "i", "n", "g", " ", "o", "f", " ", "m", "a", "i", "n">>,
     <<"1", "2", "-", "3", "1", " ", "2", "2", ":", "5", "9", ":", "4", "1", ".", "2", "7", "1", " ", " ", " ", " ", " ", "1", " ", " ", " ", "1", "9", "7", " ", "I", " ", "i", "n", "i", "t", " ", " ", " ", " ", ":", " ", "U", "p", "t", "i", "m", "e", ":", " ", "0">>,
     <<"-", "3", "1", " ", "0", ":", "0", ":", "0", ".", "0", " ", "1", " ", "1", " ", "I", " ", "t", "a", "g", ":", " ", "c", "o", "n", "t", "e", "n", "t">>,
     <<"1", "2", "-", "3", "1", " ", "0", ":", "0", ":", "0", ".", "0", " ", " ", "1", " ", "I", " ", "t", "a", "g", ":", " ", "c", "o", "n", "t", "e", "n", "t">>,
     <<"1", "2", "-", "3", "1", " ", "0", ":", "0", ":", "0", ".", "0", " ", " ", " ", "I", " ", "t", "a", "g", ":", " ", "c", "o", "n", "t", "e", "n", "t">>,
     <<"1", "2", "-", "3", "1", " ", "0", ":", "0", ":", "0", ".", "0", " ", "1", " ", "1", " ", " ", "t", "a", "g", ":", " ", "c", "o", "n", "t", "e", "n", "t">>,
     <<"1", "2", "-", "3", "1", " ", "0", ":", "0", ":", "0", ".", "0", " ", "1", " ", "1", " ", " ", "I", ":", " ", "c", "o", "n", "t", "e", "n", "t">>,
     <<"1", "2", "-", "3", "1", " ", "0", ":", "0", ":", "0", ".", "0", " ", "1", " ", "1", " ", " ", "I", " ", "c", "o", "n", "t", "e", "n", "t">>,
     <<"1", "2", "-", "3", "1", " ", "0", ":", "0", ":", "0", ".", "0", " ", "1", " ", "1", " ", "I", " ", " ", " ", " ", " ", " ", "t", "a", "g", " ", " ", " ", " ", " ", ":", " ", " ", " ", " ", "c", "o", "n", "t", "e", "n", "t", " ", " ", " ">>,
     <<"-">>,
     <<"-", " ", "1", "2", "-", "3", "1", " ", "0", ":", "0", ":", "0", ".", "0", " ", "1", " ", "1", " ", "I", " ", "t", "a", "g", ":", " ", "c", "o", "n", "t", "e", "n", "t">>,
     <<" ", "-", "3", "1", " ", "0", ":", "0", ":", "0", ".", "0", " ", "1", " ", "1", " ", "I", " ", "t", "a", "g", ":", " ", "c", "o", "n", "t", "e", "n", "t">>,
     <<>>,
     <<"1", "2", "-", "3", "1">>,
     <<"1", "2", "-", "3", "1", " ", "0", ":", "0", ":", "0", ".", "0">>,
     <<"1", "2", "-", "3", "1", " ", "0", ":", "0", ":", "0", ".", "0", " ", "1">>,
     <<"1", "2", "-", "3", "1", " ", "0", ":", "0", ":", "0", ".", "0", " ", "1", " ", "1">>,
     <<"1", "2", "-", "3", "1", " ", "0", ":", "0", ":", "0", ".", "0", " ", "1", " ", "1", " ", "I">>,
     <<"\t", "1", "2", "-", "3", "1", "\t", "0", ":", "0", ":", "0", ".", "0", "\t", "1", "\t", "1", "\t", "I", "\t", "t", "a", "g", ":", "\t", "c", "o", "n", "t", "e", "n", "t">>}

BaseDate == <<"1", "2", "-", "3", "1">>

BaseTime == <<"0", ":", "0", ":", "0", ".", "0">>

BaseTail == <<"t", "a", "g", ":", " ", "c", "o", "n", "t", "e", "n", "t">>

\* lines every numeric token and level code of which is accepted
GoodLines ==
    {Line(pre, d, t, p, ti, l, ta) :
        pre \in Pre, d \in GoodDates, t \in GoodTimes, p \in GoodPids,
        ti \in GoodTids, l \in GoodLevels, ta \in GoodTails}

\* lines with one field out of the ordinary
OddLines ==
    {Line(<<>>, d, BaseTime, <<"1">>, <<"1">>, <<"I">>, BaseTail) : d \in BadDates \cup OddDates}
    \cup {Line(<<>>, BaseDate, t, <<"1">>, <<"1">>, <<"I">>, BaseTail) :
            t \in BadTimes \cup OddTimes}
    \cup {Line(<<>>, BaseDate, BaseTime, p, <<"1">>, <<"I">>, BaseTail) :
            p \in BadPids}
    \cup {Line(<<>>, BaseDate, BaseTime, <<"1">>, ti, <<"I">>, BaseTail) :
            ti \in BadTids}
    \cup {Line(<<>>, BaseDate, BaseTime, <<"1">>, <<"1">>, l, BaseTail) :
            l \in BadLevels}
    \cup {Line(<<>>, BaseDate, BaseTime, <<"1">>, <<"1">>, <<"I">>, ta) :
            ta \in BadTails}

Lines == GoodLines \cup OddLines \cup TestLines

\* nothing returned: the last call on the builder was a setter, or none
NoRecord ==
    [by |-> "none", kind |-> "none", message |-> NoMessage, field |-> "none",
     err |-> NoErr]

(***************************************************************************)
(* The parser as a state machine                                           *)
(***************************************************************************)
Init ==
    /\ pc = "idle"
    /\ line = <<>>
    /\ rest = <<>>
    /\ msg = PartialMessage_default
    /\ result = NoResult
    /\ ran = <<>>
    /\ year = 0
    /\ calls = 0
    /\ builder = builder_new
    /\ record = NoRecord
    /\ builds = 0

\* variant: the accumulator reset before the banner check
Call_reset_first(l) ==
    /\ pc = "idle"
    /\ calls < MaxCalls
    /\ calls' = calls + 1
    /\ line' = l
    /\ ran' = <<>>
    /\ year' = 0
    /\ UNCHANGED bvars
    /\ msg' = PartialMessage_default
    /\ IF starts_with_dash(l)
       THEN /\ result' = Err(Error("malformed line", <<>>, "none"))
            /\ pc' = "done"
            /\ rest' = <<>>
       ELSE /\ result' = NoResult
            /\ pc' = "date"
            /\ rest' = l

\* variant: the accumulator is never reset
Call_no_reset(l) ==
    /\ pc = "idle"
    /\ calls < MaxCalls
    /\ calls' = calls + 1
    /\ line' = l
    /\ ran' = <<>>
    /\ year' = 0
    /\ UNCHANGED bvars
    /\ msg' = msg
    /\ IF starts_with_dash(l)
       THEN /\ result' = Err(Error("malformed line", <<>>, "none"))
            /\ pc' = "done"
            /\ rest' = <<>>
       ELSE /\ result' = NoResult
            /\ pc' = "date"
            /\ rest' = l

\* ThreadTimeParser::parse, up to the first stage: the banner check and the
\* reset of the accumulator
Call(l) ==
    /\ pc = "idle"
    /\ calls < MaxCalls
    /\ calls' = calls + 1
    /\ line' = l
    /\ ran' = <<>>
    /\ year' = 0
    /\ UNCHANGED bvars
    /\ IF starts_with_dash(l)
       THEN /\ result' = Err(Error("malformed line", <<>>, "none"))
            /\ pc' = "done"
            /\ rest' = <<>>
            /\ msg' = msg
       ELSE /\ result' = NoResult
            /\ pc' = "date"
            /\ rest' = l
            /\ msg' = PartialMessage_default

\* variant: the chain goes on to the next stage after a failure
Stage_continues(name, out, next) ==
    /\ pc = name
    /\ ran' = Append(ran, name)
    /\ msg' = out.msg
    /\ pc' = next
    /\ IF out.ok
       THEN /\ rest' = out.rest
            /\ result' = result
       ELSE /\ rest' = rest
            /\ result' = Err(out.err)
    /\ UNCHANGED <<line, year, calls>>
    /\ UNCHANGED bvars

\* one link of the and_then chain: the stage runs on the remainder; a failure
\* ends the call
Stage(name, out, next) ==
    /\ pc = name
    /\ ran' = Append(ran, name)
    /\ msg' = out.msg
    /\ IF out.ok
       THEN /\ pc' = next
            /\ rest' = out.rest
            /\ result' = result
       ELSE /\ pc' = "done"
            /\ rest' = <<>>
            /\ result' = Err(out.err)
    /\ UNCHANGED <<line, year, calls>>
    /\ UNCHANGED bvars

ParseDate == Stage("date", parse_date(msg, rest), "time")

ParseTime == Stage("time", parse_time(msg, rest), "pid")

ParsePid == Stage("pid", parse_pid(msg, rest), "tid")

ParseTid == Stage("tid", parse_tid(msg, rest), "level")

ParseLevel == Stage("level", parse_level(msg, rest), "tag")

ParseTag == Stage("tag", parse_tag(msg, rest), "content")

ParseContent ==
    /\ pc = "content"
    /\ \E today \in Years :
          /\ year' = today
          /\ result' = parse_content(msg, rest, today)
    /\ pc' = "done"
    /\ ran' = Append(ran, "content")
    /\ rest' = <<>>
    /\ UNCHANGED <<line, msg, calls>>
    /\ UNCHANGED bvars

\* the caller takes the result; the parser value keeps its accumulator
Return ==
    /\ pc = "done"
    /\ pc' = "idle"
    /\ line' = <<>>
    /\ rest' = <<>>
    /\ result' = NoResult
    /\ ran' = <<>>
    /\ year' = 0
    /\ UNCHANGED <<msg, calls>>
    /\ UNCHANGED bvars

Next ==
    \/ \E l \in Lines : Call(l)
    \/ ParseDate
    \/ ParseTime
    \/ ParsePid
    \/ ParseTid
    \/ ParseLevel
    \/ ParseTag
    \/ ParseContent
    \/ Return

Spec == Init /\ [][Next]_vars

(***************************************************************************)
(* A MessageBuilder used on its own, and the one-line entry point          *)
(***************************************************************************)
\* the values the setters are called with
BuilderLevels == {"Verbose", "Debug"}

BuilderTags == {<<"t", "a", "g">>, <<>>}

BuilderContents == {<<"c", "o", "n", "t", "e", "n", "t">>, <<>>}

BuilderDateTimes ==
    {[year |-> 2017, month |-> 8, day |-> 1, hour |-> 7, minute |-> 30,
      second |-> 0, millisecond |-> 0]}

BuilderPids == {1}

BuilderTids == {2}

\* a setter stores Some(value) in its slot and returns the builder
Setter(slots) ==
    /\ builder' = slots
    /\ record' = NoRecord
    /\ UNCHANGED builds
    /\ UNCHANGED pvars

SetLevel == \E v \in BuilderLevels : Setter(builder_level(builder, v))

SetTag == \E v \in BuilderTags : Setter(builder_tag(builder, v))

SetContent == \E v \in BuilderContents : Setter(builder_content(builder, v))

SetDateTime == \E v \in BuilderDateTimes : Setter(builder_date_time(builder, v))

SetProcessId == \E v \in BuilderPids : Setter(builder_process_id(builder, v))

SetThreadId == \E v \in BuilderTids : Setter(builder_thread_id(builder, v))

\* what build() returns on the slots given
BuildResult(slots) ==
    LET r == build(slots)
    IN  [by |-> "build", kind |-> IF r.ok THEN "ok" ELSE "err",
         message |-> r.message, field |-> r.err, err |-> NoErr]

\* variant: build() takes the values out of the slots
Build_takes ==
    /\ builds < MaxBuilds
    /\ builds' = builds + 1
    /\ record' = BuildResult(builder)
    /\ builder' = IF build(builder).ok THEN builder_new ELSE builder
    /\ UNCHANGED pvars

\* MessageBuilder::build(&self): reads the slots, clones what they hold
Build ==
    /\ builds < MaxBuilds
    /\ builds' = builds + 1
    /\ record' = BuildResult(builder)
    /\ builder' = builder
    /\ UNCHANGED pvars

\* the lines parse::threadtime is called on next to the builder
DecodeLines ==
    {Line(<<>>, BaseDate, BaseTime, <<"1">>, <<"2">>, <<"I">>, BaseTail),
     <<"-", "-", "-", " ", "m", "a", "i", "n">>,
     <<"1", "2", "-", "3", "1", " ", "0", ":", "0", ":", "0", ".", "0", " ", "1">>}

\* parse::threadtime(line): a fresh parser, one call
ThreadTime ==
    \E l \in DecodeLines : \E today \in Years :
        LET r == threadtime(l, today)
        IN  /\ record' = [by |-> "threadtime", kind |-> r.kind,
                          message |-> r.message, field |-> "none", err |-> r.err]
            /\ UNCHANGED <<builder, builds>>
            /\ UNCHANGED pvars

BuilderNext ==
    \/ SetLevel
    \/ SetTag
    \/ SetContent
    \/ SetDateTime
    \/ SetProcessId
    \/ SetThreadId
    \/ Build
    \/ ThreadTime

SpecBuilder == Init /\ [][BuilderNext]_vars

(***************************************************************************)
(* Reading a line by positions, for stating the properties                 *)
(***************************************************************************)
\* the positions where a maximal run of non-whitespace characters starts
TokenStarts(l) ==
    {i \in 1..Len(l) : ~is_whitespace(l[i]) /\ (i = 1 \/ is_whitespace(l[i - 1]))}

\* the end of the run that starts at i
TokenEnd(l, i) ==
    Max({j \in i..Len(l) : \A k \in i..j : ~is_whitespace(l[k])})

\* the start of the k-th token, counted from 1
NthStart(l, k) ==
    CHOOSE i \in TokenStarts(l) : Cardinality({j \in TokenStarts(l) : j <= i}) = k

\* the k-th token
Token(l, k) == SubSeq(l, NthStart(l, k), TokenEnd(l, NthStart(l, k)))

NumTokens(l) == Cardinality(TokenStarts(l))

Positions(s, c) == {i \in 1..Len(s) : s[i] = c}

IsNumber(s) == s # <<>> /\ Len(s) <= 9 /\ \A i \in 1..Len(s) : s[i] \in Digits

\* mm-dd
IsDateToken(s) ==
    /\ Cardinality(Positions(s, "-")) = 1
    /\ LET i == Min(Positions(s, "-"))
       IN  IsNumber(SubSeq(s, 1, i - 1)) /\ IsNumber(SubSeq(s, i + 1, Len(s)))

\* hh:mm:ss.mmm
IsTimeToken(s) ==
    /\ Cardinality(Positions(s, ":")) = 2
    /\ Cardinality(Positions(s, ".")) = 1
    /\ LET i == Min(Positions(s, ":"))
           j == Max(Positions(s, ":"))
           k == Min(Positions(s, "."))
       IN  /\ j < k
           /\ IsNumber(SubSeq(s, 1, i - 1))
           /\ IsNumber(SubSeq(s, i + 1, j - 1))
           /\ IsNumber(SubSeq(s, j + 1, k - 1))
           /\ IsNumber(SubSeq(s, k + 1, Len(s)))

\* where the tag starts in a line of the nominal shape: after the level token
\* and one space
TailStart(l) == TokenEnd(l, NthStart(l, 5)) + 2

\* the first ':' at or after the start of the tag
TagColon(l) == Min({i \in TailStart(l)..Len(l) : l[i] = ":"})

\* a line `mm-dd hh:mm:ss.mmm pid tid L tag: content`: no leading whitespace,
\* one space between the fields, a tag free of whitespace, ": " after it
WellFormed(l) ==
    /\ NumTokens(l) >= 6
    /\ NthStart(l, 1) = 1
    /\ \A k \in 1..5 :
          /\ NthStart(l, k + 1) = TokenEnd(l, NthStart(l, k)) + 2
          /\ l[TokenEnd(l, NthStart(l, k)) + 1] = " "
    /\ IsDateToken(Token(l, 1))
    /\ IsTimeToken(Token(l, 2))
    /\ IsNumber(Token(l, 3))
    /\ IsNumber(Token(l, 4))
    /\ Token(l, 5) \in {<<"V">>, <<"D">>, <<"I">>, <<"W">>, <<"E">>, <<"F">>}
    /\ \E i \in TailStart(l)..Len(l) : l[i] = ":"
    /\ TagColon(l) = TokenEnd(l, NthStart(l, 6))
    /\ TagColon(l) > TailStart(l)
    /\ TagColon(l) < Len(l)
    /\ l[TagColon(l) + 1] = " "

\* the integer fields of a well-formed line, read off by position
MonthOf(l) ==
    LET s == Token(l, 1) IN DecVal(SubSeq(s, 1, Min(Positions(s, "-")) - 1))

DayOf(l) ==
    LET s == Token(l, 1) IN DecVal(SubSeq(s, Min(Positions(s, "-")) + 1, Len(s)))

HourOf(l) ==
    LET s == Token(l, 2) IN DecVal(SubSeq(s, 1, Min(Positions(s, ":")) - 1))

MinuteOf(l) ==
    LET s == Token(l, 2)
    IN  DecVal(SubSeq(s, Min(Positions(s, ":")) + 1, Max(Positions(s, ":")) - 1))

SecondOf(l) ==
    LET s == Token(l, 2)
    IN  DecVal(SubSeq(s, Max(Positions(s, ":")) + 1, Min(Positions(s, ".")) - 1))

MilliOf(l) ==
    LET s == Token(l, 2) IN DecVal(SubSeq(s, Min(Positions(s, ".")) + 1, Len(s)))

\* the fixed code table V, D, I, W, E, F
LevelCode ==
    [c \in {"V", "D", "I", "W", "E", "F"} |->
        CASE c = "V" -> "Verbose" [] c = "D" -> "Debug" [] c = "I" -> "Info"
          [] c = "W" -> "Warning" [] c = "E" -> "Error" [] c = "F" -> "Fatal"]

CalendarValid(l, y) ==
    /\ ValidDate(y, MonthOf(l), DayOf(l))
    /\ HourOf(l) < 24 /\ MinuteOf(l) < 60 /\ SecondOf(l) < 60 /\ MilliOf(l) < 1000

(***************************************************************************)
(* Properties                                                              *)
(***************************************************************************)

\* C1: a well-formed line with calendar-valid values (for the year of the
\* clock) is parsed by all seven stages into Ok(Message), and every field of
\* the Message is the corresponding token of the line: the numbers as
\* integers, the level through the code table, the tag and the content as
\* text.
C1_WellFormedLineDecodes ==
    (pc = "done" /\ WellFormed(line)) =>
        /\ year # 0
        /\ CalendarValid(line, year) =>
              /\ result.kind = "ok"
              /\ result.message.date_time =
                    <<[year |-> year, month |-> MonthOf(line), day |-> DayOf(line),
                       hour |-> HourOf(line), minute |-> MinuteOf(line),
                       second |-> SecondOf(line), millisecond |-> MilliOf(line)]>>
              /\ result.message.pid = <<DecVal(Token(line, 3))>>
              /\ result.message.tid = <<DecVal(Token(line, 4))>>
              /\ result.message.level = LevelCode[Token(line, 5)[1]]
              /\ result.message.tag = SubSeq(line, TailStart(line), TagColon(line) - 1)
              /\ result.message.content = SubSeq(line, TagColon(line) + 2, Len(line))

\* a well-formed line of 29 February, parsed in the leap year at level Warning
C1_Witness ==
    /\ pc = "done"
    /\ WellFormed(line)
    /\ CalendarValid(line, year)
    /\ result.kind = "ok"
    /\ result.message.level = "Warning"
    /\ result.message.date_time[1].day = 29
    /\ result.message.tid = <<197>>
    /\ result.message.date_time[1].second = 41

\* the stages of one call, in the order of the and_then chain
StageOrder == <<"date", "time", "pid", "tid", "level", "tag", "content">>

\* C2 (as claimed): when the month, day and time of a line parsed as numbers
\* but do not name a moment of the calendar, the call ends with an error value
\* returned to the caller.
C2_InvalidTimestampIsError ==
    (/\ pc = "done"
     /\ ran = StageOrder
     /\ ~(/\ ValidDate(year, msg.month, msg.day)
          /\ ValidTime(msg.hour, msg.minute, msg.second, msg.millisecond)))
    => result.kind = "err"

\* C3: a call on a line whose first character is '-' ends at once with an
\* error: no stage runs, the clock is not read, and the accumulator keeps
\* the values it had before the call.
C3_BannerRejectedBeforeStages ==
    [][(pc = "idle" /\ pc' # "idle" /\ Len(line') > 0 /\ line'[1] = "-")
         => /\ pc' = "done"
            /\ result'.kind = "err"
            /\ ran' = <<>>
            /\ year' = 0
            /\ msg' = msg]_vars

\* a '-' line rejected by a parser whose accumulator holds the fields of an
\* earlier line, with text after the '-'
C3_Witness ==
    /\ pc = "done"
    /\ Len(line) > 1
    /\ line[1] = "-"
    /\ result.kind = "err"
    /\ ran = <<>>
    /\ msg.month = 12
    /\ msg.tag # <<>>

\* the line `-31 0:0:0.0 1 1 I tag: content`
EmptyMonthLine ==
    <<"-", "3", "1", " ", "0", ":", "0", ":", "0", ".", "0", " ", "1", " ", "1",
      " ", "I", " ", "t", "a", "g", ":", " ", "c", "o", "n", "t", "e", "n", "t">>

\* C4 (as claimed): the line `-31 0:0:0.0 1 1 I tag: content` fails at the
\* date stage, with the date stage's malformed mm-dd diagnostic.
C4_EmptyMonthFailsAtDateStage ==
    (pc = "done" /\ line = EmptyMonthLine) =>
        /\ result.kind = "err"
        /\ ran = <<"date">>
        /\ result.err.ctx = "invalid date (mm-dd): "

\* C4 (amended): a line whose date token has an empty month fails; when the
\* token stands at the very start of the line the failure is the banner
\* rejection `malformed line` and the date stage does not run; when
\* whitespace precedes the token the failure is the date stage's
\* `invalid date (mm-dd): <token>`.
C4_EmptyMonthRejected ==
    (/\ pc = "done"
     /\ NumTokens(line) >= 2
     /\ Token(line, 1)[1] = "-")
    => /\ result.kind = "err"
       /\ IF line[1] = "-"
          THEN /\ ran = <<>>
               /\ result.err = [ctx |-> "malformed line", arg |-> <<>>,
                                cause |-> "none"]
          ELSE /\ ran = <<"date">>
               /\ result.err.ctx = "invalid date (mm-dd): "
               /\ result.err.arg = Token(line, 1)

\* the line of the claim, rejected
C4_Witness ==
    /\ pc = "done"
    /\ line = EmptyMonthLine
    /\ result.kind = "err"
    /\ result.err.ctx = "malformed line"

\* the message each stage attaches to a token it cannot parse
TokenContext ==
    [s \in {"date", "time", "pid", "tid", "level"} |->
        CASE s = "date" -> "invalid date (mm-dd): "
          [] s = "time" -> "invalid time: "
          [] s = "pid" -> "invalid process id: "
          [] s = "tid" -> "invalid thread id: "
          [] s = "level" -> "invalid level: "]

\* C5 (as claimed): every failure names the stage that failed and contains
\* the whole token that failed.
C5_EveryFailureCarriesToken ==
    (pc = "done" /\ result.kind = "err") =>
        /\ result.err.arg # <<>>
        /\ Len(ran) \in 1..5 =>
              /\ NumTokens(line) >= Len(ran)
              /\ result.err.arg = Token(line, Len(ran))
              /\ result.err.ctx = TokenContext[ran[Len(ran)]]

\* the time stage has run in this call and did not fail
TimeStagePassed ==
    /\ Len(ran) >= 2
    /\ (Len(ran) > 2 \/ pc = "pid")

\* the number of groups the delimiters ':' and '.' cut a token into
GroupCount(tok) == 1 + Cardinality({i \in 1..Len(tok) : tok[i] \in {":", "."}})

\* C6 (as claimed): the time stage succeeds only on a token of exactly four
\* groups; a token with any other number of groups makes the call fail.
C6_TimeNeedsExactlyFourGroups ==
    TimeStagePassed => GroupCount(Token(line, 2)) = 4

\* the text that remains for the tag stage: what follows the level token and
\* the one whitespace character after it
AfterLevel(l) == SubSeq(l, TokenEnd(l, NthStart(l, 5)) + 2, Len(l))

\* s without its leading and trailing whitespace
Trimmed(s) ==
    LET keep == {i \in 1..Len(s) : s[i] \notin Whitespace}
    IN  IF keep = {} THEN <<>> ELSE SubSeq(s, Min(keep), Max(keep))

\* the tag stage has run in this call
TagStageRan == Len(ran) >= 6

\* C7: when the tag stage runs, the text after the level token is cut at its
\* first ':'; the tag is the part before it without leading and trailing
\* whitespace (possibly empty), and is the tag of the Message; without a ':'
\* the call fails with the missing-tag error.
C7_TagIsTrimmedPrefix ==
    TagStageRan =>
        LET text == AfterLevel(line)
            colons == Positions(text, ":")
        IN  IF colons = {}
            THEN /\ pc = "done"
                 /\ ran = SubSeq(StageOrder, 1, 6)
                 /\ result = Err(Error("invalid line: missing tag", <<>>, "none"))
            ELSE /\ pc = "content" \/ ran = StageOrder
                 /\ msg.tag = Trimmed(SubSeq(text, 1, Min(colons) - 1))
                 /\ result.kind = "ok" => result.message.tag = msg.tag

\* a tag with whitespace on both sides, returned without it
C7_Witness ==
    /\ pc = "done"
    /\ result.kind = "ok"
    /\ LET text == AfterLevel(line)
       IN  /\ Positions(text, ":") # {}
           /\ text[1] = " "
           /\ text[Min(Positions(text, ":")) - 1] = "\t"
    /\ result.message.tag = <<"t", "a", "g">>

\* what follows the first ':' of the text after the level token
AfterColon(l) ==
    LET text == AfterLevel(l)
    IN  SubSeq(text, Min(Positions(text, ":")) + 1, Len(text))

\* C8: the content of a returned Message is the text after the first ':' of
\* the tag stage less its first character, whatever that character is, and
\* nothing else is added, removed or trimmed; when nothing follows the ':'
\* the tag stage succeeds, and the call on calendar-valid values returns a
\* Message with empty content.
C8_ContentIsRestLessOneChar ==
    /\ (pc = "done" /\ result.kind = "ok") =>
          result.message.content = SubSeq(AfterColon(line), 2, Len(AfterColon(line)))
    /\ (/\ TagStageRan
        /\ Positions(AfterLevel(line), ":") # {}
        /\ AfterColon(line) = <<>>)
       => \/ pc = "content" /\ rest = <<>>
          \/ /\ pc = "done"
             /\ ran = StageOrder
             /\ (/\ ValidDate(year, msg.month, msg.day)
                 /\ ValidTime(msg.hour, msg.minute, msg.second, msg.millisecond))
                => (result.kind = "ok" /\ result.message.content = <<>>)

\* a content that keeps its leading and trailing whitespace after the one
\* character dropped behind the ':'
C8_Witness ==
    /\ pc = "done"
    /\ result.kind = "ok"
    /\ AfterColon(line) = <<" ", " ", "c", " ">>
    /\ result.message.content = <<" ", "c", " ">>

\* a line with nothing after the ':', parsed to an empty content
C8_WitnessEmpty ==
    /\ pc = "done"
    /\ result.kind = "ok"
    /\ AfterColon(line) = <<>>
    /\ result.message.content = <<>>

\* the whitespace characters that separate the fields: those before the
\* date token and between the date, time, process id, thread id, level and
\* tag, that is before the start of the sixth token
SeparatorPositions(l) ==
    {i \in 1..Len(l) :
        /\ is_whitespace(l[i])
        /\ Cardinality({j \in TokenStarts(l) : j < i}) <= 5}

\* runs of whitespace put in the place of one separator character
Runs == {<<"\t">>, <<"\r", "\n">>, <<" ", "\f", " ">>}

\* the line with the character at position i replaced by the run w
Replaced(l, i, w) == SubSeq(l, 1, i - 1) \o w \o SubSeq(l, i + 1, Len(l))

\* C9: replacing one whitespace separator of the line by a run of one or
\* more whitespace characters does not change the outcome: a fresh parse of
\* the changed line under the same clock fails iff this call failed, and on
\* success returns the same Message.
C9_SeparatorWidthIrrelevant ==
    (pc = "done") =>
        \A i \in SeparatorPositions(line) : \A w \in Runs :
            LET other == threadtime(Replaced(line, i, w), year)
            IN  /\ other.kind = result.kind
                /\ other.message = result.message

\* a Message from a line with separators before every one of the six fields
C9_Witness ==
    /\ pc = "done"
    /\ result.kind = "ok"
    /\ line[1] = " "
    /\ Cardinality(SeparatorPositions(line)) >= 6
    /\ result.message.tag # <<>>

\* C10: each threshold predicate holds of a level exactly when the level is
\* at or above the threshold in the order Verbose < Debug < Info < Warning <
\* Error < Fatal, so each predicate implies the ones below it.
C10_ThresholdsFollowOrder ==
    LET x == msg.level
    IN  /\ x \in Levels
        /\ is_debug_or_higher(x) <=> Rank(x) >= Rank("Debug")
        /\ is_info_or_higher(x) <=> Rank(x) >= Rank("Info")
        /\ is_warning_or_higher(x) <=> Rank(x) >= Rank("Warning")
        /\ is_error_or_higher(x) <=> Rank(x) >= Rank("Error")
        /\ is_error_or_higher(x) => is_warning_or_higher(x)
        /\ is_warning_or_higher(x) => is_info_or_higher(x)
        /\ is_info_or_higher(x) => is_debug_or_higher(x)

\* a Message of level Info: at or above Info, below Warning
C10_Witness ==
    /\ pc = "done"
    /\ result.kind = "ok"
    /\ result.message.level = "Info"
    /\ msg.level = "Info"
    /\ is_info_or_higher(msg.level)
    /\ ~is_warning_or_higher(msg.level)

(***************************************************************************)
(* C11..C13: the builder                                                   *)
(***************************************************************************)
\* the mandatory fields in the order build() looks at them
Mandatory == <<"level", "tag", "content">>

\* the positions of Mandatory whose slot holds nothing
Unset(slots) == {i \in 1..Len(Mandatory) : slots[Mandatory[i]] = <<>>}

\* the least number of a non-empty set of numbers
Least(S) == CHOOSE i \in S : \A j \in S : i <= j

\* C11: after any sequence of setter calls, build succeeds exactly when
\* level, tag and content have each been set; otherwise it returns
\* FieldNotSet naming the first unset field in the order level, tag, content
\* and no Message.
C11_BuildNeedsMandatory ==
    record.by = "build" =>
        /\ record.kind \in {"ok", "err"}
        /\ record.kind = "ok" <=> Unset(builder) = {}
        /\ record.kind = "ok" =>
                /\ record.field = "none"
                /\ record.message # NoMessage
                /\ record.message.level = builder.level[1]
                /\ record.message.tag = builder.tag[1]
                /\ record.message.content = builder.content[1]
        /\ record.kind = "err" =>
                /\ record.field = Mandatory[Least(Unset(builder))]
                /\ record.message = NoMessage

\* build on a builder with content and process id set and neither level nor
\* tag: the field named is level, the first of the two
C11_Witness ==
    /\ record.by = "build"
    /\ record.kind = "err"
    /\ record.field = "level"
    /\ builder.level = <<>>
    /\ builder.tag = <<>>
    /\ builder.content # <<>>
    /\ builder.pid # <<>>

\* a step that is one call of build()
BuildStep == builds' = builds + 1

\* C12 as stated: a successful build consumes the accumulated state, so a
\* second build on the same builder, with no setter called in between,
\* yields no Record.
C12_BuilderIsSingleUse ==
    [][(BuildStep /\ record.by = "build" /\ record.kind = "ok")
          => record'.kind # "ok"]_vars

\* C12: build() reads the slots and leaves every one of them as it was, so
\* a build on the same builder right after another build, with no setter
\* called in between, returns what that build returned: an equal Record
\* after a success, the same FieldNotSet after a failure.
C12_BuildKeepsSlots ==
    [][BuildStep =>
          /\ builder' = builder
          /\ record.by = "build" => record' = record]_vars

\* a builder built twice, the second time successfully, its optional
\* process id still in the slot and in the Record
C12_Witness ==
    /\ builds = 2
    /\ record.by = "build"
    /\ record.kind = "ok"
    /\ builder.pid # <<>>
    /\ record.message.pid = builder.pid

\* the optional fields of a Message that hold a value
Present(m) == {f \in {"date_time", "pid", "tid"} : m[f] # <<>>}

\* C13 as stated: in every successfully constructed Record the three
\* optional fields are all present or all absent.
C13_OptionalAllOrNone ==
    record.kind = "ok" =>
        \/ Present(record.message) = {"date_time", "pid", "tid"}
        \/ Present(record.message) = {}

\* C13: a Record returned by the threadtime decoder has all three optional
\* fields, and a Record built by hand has each optional field exactly when
\* that field's setter was called, with the value set: none of them when
\* only the mandatory fields were set, and only some when only some were.
C13_OptionalFollowSetters ==
    /\ (record.by = "threadtime" /\ record.kind = "ok") =>
            Present(record.message) = {"date_time", "pid", "tid"}
    /\ (record.by = "build" /\ record.kind = "ok") =>
            /\ Present(record.message) = Present(builder)
            /\ record.message.date_time = builder.date_time
            /\ record.message.pid = builder.pid
            /\ record.message.tid = builder.tid

\* a Record built after process_id was the only optional setter called
C13_Witness ==
    /\ record.by = "build"
    /\ record.kind = "ok"
    /\ Present(record.message) = {"pid"}
    /\ Present(builder) = {"pid"}

(***************************************************************************)
(* C14, C15: the chain of stages, and a parser value used again            *)
(***************************************************************************)
\* s is what is left of l after some prefix of it
IsSuffix(s, l) ==
    /\ Len(s) <= Len(l)
    /\ s = SubSeq(l, Len(l) - Len(s) + 1, Len(l))

\* C14: within one call the stages run in the order date, time, pid, tid,
\* level, tag, content, each on the remainder the one before it left, none
\* twice and none left out; the first stage that fails ends the call with
\* its failure and no stage runs after it; a Message is returned only when
\* all seven stages have run.
C14_StagesRunInOrder ==
    LET n == Len(ran)
    IN  /\ n <= Len(StageOrder)
        /\ ran = SubSeq(StageOrder, 1, n)
        /\ pc \notin {"idle", "done"} =>
              /\ n < Len(StageOrder)
              /\ pc = StageOrder[n + 1]
              /\ result = NoResult
              /\ AfterStages(n, line).ok
              /\ rest = AfterStages(n, line).rest
              /\ IsSuffix(rest, line)
        /\ (pc = "done" /\ result.kind = "ok") =>
              /\ ran = StageOrder
              /\ AfterStages(6, line).ok
              /\ result.message # NoMessage
        /\ (pc = "done" /\ result.kind = "err" /\ n > 0) =>
              /\ n < Len(StageOrder)
              /\ AfterStages(n - 1, line).ok
              /\ ~AfterStages(n, line).ok
              /\ result = Err(AfterStages(n, line).err)
        /\ (pc = "done" /\ n = 0) =>
              result = Err(Error("malformed line", <<>>, "none"))
        /\ result.kind # "ok" => result.message = NoMessage
        /\ pc = "idle" => (n = 0 /\ result = NoResult)

\* a call that the pid stage ended: date, time and pid ran, nothing after
C14_Witness ==
    /\ pc = "done"
    /\ ran = <<"date", "time", "pid">>
    /\ result.kind = "err"
    /\ result.err.ctx = "invalid process id: "

\* the years the clock may have shown during the call that has ended
ClockYears == IF year = 0 THEN Years ELSE {year}

\* C15: whatever calls a parser value has served before, the result of a
\* call is the result a fresh parser gives for the same line in the same
\* year, and the accumulator the call leaves is the one a fresh parser
\* would be left with: nothing of an earlier call is in it.
C15_ReuseEqualsFresh ==
    pc = "done" =>
        \A y \in ClockYears :
            /\ result = threadtime(line, y)
            /\ ~starts_with_dash(line) =>
                  msg = parse(PartialMessage_default, line, y).msg

\* the second call on one parser value has returned a Message
C15_Witness ==
    /\ calls = 2
    /\ pc = "done"
    /\ result.kind = "ok"
    /\ result = threadtime(line, year)
    /\ result.message.tag # <<>>

=============================================================================
